---- MODULE Spec2Model ----
(***************************************************************************)
(* The workflow controller of the AIDEPS front end: WorkflowPage.tsx and   *)
(* the part of Stage1Upload.tsx that reports payloads to it.               *)
(*                                                                         *)
(* JavaScript numbers: a stage number is an integer or NaN.  NaN is the    *)
(* reserved integer below; the operators Lt, Gt, Plus and StrictEq give    *)
(* the comparisons and the arithmetic their JavaScript meaning on it.      *)
(* JavaScript strings that are parsed are sequences of one-character       *)
(* strings; object keys and messages are TLA+ strings.                     *)
(***************************************************************************)
EXTENDS Integers, Sequences, FiniteSets, TLC

\* ---------------------------------------------------------------- bounds
\* handleNext is not started once completedStages holds this many entries
MaxCompleted == 3
\* uploads that may be awaiting the server's response at the same time
MaxUploads == 1
\* entries of the cleaning log of stage 2 beyond which nothing is applied
MaxActions == 6

\* ------------------------------------------------------ JavaScript values
NaN == -99
undefined == "undefined"

Lt(a, b) == a # NaN /\ b # NaN /\ a < b
Gt(a, b) == a # NaN /\ b # NaN /\ a > b
Plus(a, b) == IF a = NaN \/ b = NaN THEN NaN ELSE a + b
StrictEq(a, b) == a # NaN /\ b # NaN /\ a = b
\* Array.prototype.includes compares with SameValueZero: NaN is found
Includes(arr, x) == \E i \in DOMAIN arr : arr[i] = x
\* the property key a number turns into
KeyOf(n) == IF n = NaN THEN "NaN" ELSE ToString(n)

DigitVal ==
  [c \in {"0", "1", "2", "3", "4", "5", "6", "7", "8", "9"} |->
     CASE c = "0" -> 0 [] c = "1" -> 1 [] c = "2" -> 2 [] c = "3" -> 3
       [] c = "4" -> 4 [] c = "5" -> 5 [] c = "6" -> 6 [] c = "7" -> 7
       [] c = "8" -> 8 [] c = "9" -> 9]

RECURSIVE StripSpace(_)
StripSpace(s) ==
  IF s # <<>> /\ Head(s) = " " THEN StripSpace(Tail(s)) ELSE s

\* the value of the longest prefix of decimal digits of s, NaN if it is empty
RECURSIVE DigitsValue(_, _, _)
DigitsValue(s, acc, seen) ==
  IF s # <<>> /\ Head(s) \in DOMAIN DigitVal
    THEN DigitsValue(Tail(s), 10 * acc + DigitVal[Head(s)], TRUE)
    ELSE IF seen THEN acc ELSE NaN

\* parseInt(s) without radix, on strings without a 0x prefix
ParseInt(s) ==
  LET t == StripSpace(s)
      neg == t # <<>> /\ Head(t) = "-"
      u == IF t # <<>> /\ Head(t) \in {"-", "+"} THEN Tail(t) ELSE t
      v == DigitsValue(u, 0, FALSE)
  IN IF v = NaN THEN NaN ELSE IF neg THEN 0 - v ELSE v

\* ------------------------------------------------------------ the stages
stages ==
  << "Raw Data Upload", "Data Cleansing", "Analysis & Discovery",
     "Statistics & Weights", "Propose Reports", "User Confirmation",
     "Final Report Generation" >>

\* the ids of the steps the pipeline view draws, each with an onClick
StageIds == 1..7

\* ---------------------------------------------------------------- inputs
\* the :stage segment of the route; <<>> when the route has none
StageParams ==
  { <<>>, <<"3">>, <<"0">>, <<"9", "9", "9">>, <<"a", "b", "c">> }

\* the :documentId segment; undefined on /workflow/new
DocumentIds == { undefined, "demo", "invalid" }

\* the routes of App.tsx that show the workflow page
Routes ==
  { [documentId |-> d, stage |-> p] :
      d \in DocumentIds, p \in StageParams } \
  { [documentId |-> undefined, stage |-> p] : p \in StageParams \ {<<>>} }

\* the JSON bodies an OK upload response carries; a document_id is a UUID
\* the database generates, so it is never one of the ids of DocumentIds
UploadResponses ==
  { [document_id |-> "doc1"], [document_id |-> undefined] }

\* the truth value of a string or of undefined
Truthy(x) == x # undefined /\ x # ""

VARIABLES
  documentId,        \* useParams().documentId
  currentStage,      \* useState: the stage shown
  completedStages,   \* useState: array of stage numbers
  stageData,         \* useState: object, key -> payload
  loading,           \* useState
  isProcessing,      \* useState
  validationErrors,  \* useState: array of messages
  nextCall,          \* the handleNext waiting for saveStageData
  loads,             \* the loadWorkflowData calls waiting for their timer
  s1,                \* the state of the mounted Stage1Upload
  uploads,           \* the handleUpload calls waiting for the response
  toast,             \* the last toast shown
  confirmDialog,     \* useState: the Complete Workflow dialog is open
  location,          \* the page the router shows
  authStore,         \* the state of useAuthStore
  url,               \* the :stage segment of the address the router shows
  localStorage,      \* window.localStorage: key -> value
  sent,              \* the Authorization header of the last api request
  loginError,        \* useState of LoginPage: the message it shows
  s2,                \* the state of Stage2Cleansing and its pending calls
  runner             \* run_all_tests.sh: where it is and what it wrote

vars ==
  << documentId, currentStage, completedStages, stageData, loading,
     isProcessing, validationErrors, nextCall, loads, s1, uploads, toast,
     confirmDialog, location, authStore, url, localStorage, sent,
     loginError, s2, runner >>

\* what no handler of the workflow page reads or writes
farVars == << localStorage, sent, loginError, s2, runner >>

\* what lives outside the state hooks of WorkflowPage and of Stage1Upload
appVars == << confirmDialog, location, authStore >>

NoCall == [pc |-> "idle", currentStage |-> 0, completedStages |-> <<>>]

S1Init == [file |-> FALSE, uploading |-> FALSE, uploadResponse |-> <<>>]

EmptyObject == [k \in {} |-> undefined]

\* the page draws its content, and not the spinner, when loading is false
Rendered(ld) == ~ld

\* stages[currentStage - 1]?.component is Stage1Upload
Stage1Mounted(ld, cs) == Rendered(ld) /\ cs = 1

\* the store after logout, which is also its initial state
LoggedOut == [user |-> "null", token |-> "null", isAuthenticated |-> FALSE]

\* the store after a login with the demo credentials
LoggedInAt(t) ==
  [user |-> "Data Analyst", token |-> "mock-jwt-token-" \o ToString(t),
   isAuthenticated |-> TRUE]

\* the values Date.now() takes at the logins
Times == { 1, 2 }

\* the store after the login the page starts from
LoggedIn == LoggedInAt(1)

\* the users setUser is given
Users == { "Data Analyst", "Field Officer" }

\* localStorage with nothing stored
EmptyStorage == [k \in {} |-> "null"]

\* localStorage.setItem(key, value)
SetItem(ls, key, value) ==
  [k \in DOMAIN ls \cup {key} |-> IF k = key THEN value ELSE ls[k]]

\* localStorage.removeItem(key)
RemoveItem(ls, key) == [k \in DOMAIN ls \ {key} |-> ls[k]]

\* localStorage.getItem(key) of a key that holds a string
GetItem(ls, key) == IF key \in DOMAIN ls THEN ls[key] ELSE "null"

\* persist writes the store under auth-storage at every set
Persisted(ls, store) == SetItem(ls, "auth-storage", store)

\* localStorage after login has set the store to store
StorageAfterLogin(ls, store) ==
  SetItem(Persisted(ls, store), "auth-token", store.token)

\* logout that leaves auth-token where it is
StorageAfterLogoutKeepsToken(ls) ==
  RemoveItem(Persisted(ls, LoggedOut), "auth-storage")

\* localStorage after logout has cleared the store
StorageAfterLogout(ls) ==
  RemoveItem(RemoveItem(Persisted(ls, LoggedOut), "auth-token"),
             "auth-storage")

\* the :stage segment after the effect on [currentStage] of a render with
\* document doc, when the stage shown went from csOld to csNew
UrlAfter(doc, csOld, csNew, u) ==
  IF csNew # csOld /\ Truthy(doc) /\ doc # "new" THEN KeyOf(csNew) ELSE u

\* the :stage segment once WorkflowPage is mounted on route r and its
\* effects have run; a route without :documentId has no :stage either
UrlOnMount(r) ==
  IF Truthy(r.documentId) /\ r.documentId # "new"
    THEN KeyOf(ParseInt(IF r.stage # <<>> THEN r.stage ELSE <<"1">>))
    ELSE "none"

\* Stage2Cleansing as mounted
S2Init == [cleaningActions |-> <<>>, processing |-> FALSE, autoCleans |-> <<>>]

\* run_all_tests.sh before its first line: the suites run so far with their
\* return status, whether $REPORT_FILE can be written, and the number of
\* its lines that hold a failure mark
RunnerInit ==
  [pc |-> "start", writable |-> TRUE, marks |-> 0, ran |-> <<>>,
   verdict |-> "none", exit |-> -1]

\* a page whose Backdrop lets the pointer through
ClickableWhileProcessing ==
  /\ location = "workflow"
  /\ Rendered(loading) /\ ~confirmDialog

\* every pointer event reaches the Backdrop while isProcessing, and the
\* modal Dialog while confirmDialog
Clickable ==
  /\ location = "workflow"
  /\ Rendered(loading) /\ ~isProcessing /\ ~confirmDialog

Init ==
  \E r \in Routes :
    /\ documentId = r.documentId
    /\ currentStage = ParseInt(IF r.stage # <<>> THEN r.stage ELSE <<"1">>)
    /\ completedStages = <<>>
    /\ stageData = EmptyObject
    /\ isProcessing = FALSE
    /\ validationErrors = <<>>
    /\ nextCall = NoCall
    \* the effect on [documentId] has run: loadWorkflowData is waiting
    /\ loading = Truthy(r.documentId)
    /\ loads = IF Truthy(r.documentId) THEN {r.documentId} ELSE {}
    /\ s1 = S1Init
    /\ uploads = <<>>
    /\ toast = "none"
    /\ confirmDialog = FALSE
    \* App draws the page under Layout, which it does for a logged-in user
    /\ location = "workflow"
    /\ authStore = LoggedIn
    /\ localStorage = StorageAfterLogin(EmptyStorage, LoggedIn)
    \* the effect on [currentStage] has run
    /\ url = UrlOnMount(r)
    /\ sent = "none"
    /\ loginError = ""
    /\ s2 = S2Init
    /\ runner = RunnerInit

\* Stage1Upload keeps its state while it stays mounted and starts afresh
\* when it is mounted again
S1After(ld, cs, kept) == IF Stage1Mounted(ld, cs) THEN kept ELSE S1Init

\* the setters of an unmounted Stage1Upload no longer reach a component
UploadsAfter(ld, cs, ups) ==
  IF Stage1Mounted(ld, cs)
    THEN ups
    ELSE [i \in DOMAIN ups |-> [ups[i] EXCEPT !.alive = FALSE]]

RemoveAt(seq, i) == SubSeq(seq, 1, i - 1) \o SubSeq(seq, i + 1, Len(seq))

\* ---------------------------------------------------- loadWorkflowData
\* loadWorkflowData that restores the completed stages of the demo document
\* and leaves the stage shown where the route put it
LoadWorkflowDataDoneNoResume ==
  \E d \in loads :
    /\ loads' = loads \ {d}
    /\ IF d = "demo"
         THEN completedStages' = <<1, 2>>
         ELSE UNCHANGED completedStages
    /\ loading' = FALSE
    /\ s1' = S1After(loading', currentStage, s1)
    /\ uploads' = UploadsAfter(loading', currentStage, uploads)
    /\ UNCHANGED << documentId, currentStage, stageData, isProcessing,
                    validationErrors, nextCall, toast >>
    /\ UNCHANGED appVars
    /\ UNCHANGED farVars
    /\ url' = UrlAfter(documentId', currentStage, currentStage', url)

\* the 500 ms timer of a loadWorkflowData call for document d fires
LoadWorkflowDataDone ==
  \E d \in loads :
    /\ loads' = loads \ {d}
    /\ IF d = "demo"
         THEN /\ completedStages' = <<1, 2>>
              /\ currentStage' = 3
         ELSE UNCHANGED <<completedStages, currentStage>>
    /\ loading' = FALSE
    /\ s1' = S1After(loading', currentStage', s1)
    /\ uploads' = UploadsAfter(loading', currentStage', uploads)
    /\ UNCHANGED << documentId, stageData, isProcessing, validationErrors,
                    nextCall, toast >>
    /\ UNCHANGED appVars
    /\ UNCHANGED farVars
    /\ url' = UrlAfter(documentId', currentStage, currentStage', url)

\* loadWorkflowData without its finally: a failed load leaves the spinner on
LoadWorkflowDataFailedStaysLoading ==
  \E d \in loads :
    /\ loads' = loads \ {d}
    /\ toast' = "Failed to load workflow data"
    /\ UNCHANGED << documentId, currentStage, completedStages, stageData,
                    loading, isProcessing, validationErrors, nextCall, s1,
                    uploads >>
    /\ UNCHANGED appVars
    /\ UNCHANGED farVars
    /\ url' = UrlAfter(documentId', currentStage, currentStage', url)

\* the load of document d throws: the catch and the finally of
\* loadWorkflowData
LoadWorkflowDataFailed ==
  \E d \in loads :
    /\ loads' = loads \ {d}
    /\ toast' = "Failed to load workflow data"
    /\ loading' = FALSE
    /\ s1' = S1After(loading', currentStage, s1)
    /\ uploads' = UploadsAfter(loading', currentStage, uploads)
    /\ UNCHANGED << documentId, currentStage, completedStages, stageData,
                    isProcessing, validationErrors, nextCall >>
    /\ UNCHANGED appVars
    /\ UNCHANGED farVars
    /\ url' = UrlAfter(documentId', currentStage, currentStage', url)

\* ---------------------------------------------------------- validateStage
\* stageData.key is truthy: the values stored are response objects
HasTruthy(sd, key) == key \in DOMAIN sd

\* the messages validateStage collects at stage cs for the object sd
ValidateStageErrors(cs, sd) ==
  IF cs = 1 /\ ~HasTruthy(sd, "fileUploaded")
    THEN << "Please upload a file before proceeding" >>
  ELSE IF cs = 2 /\ ~HasTruthy(sd, "cleaningComplete")
    THEN << "Please complete data cleaning before proceeding" >>
  ELSE IF cs = 6 /\ ~HasTruthy(sd, "userConfirmed")
    THEN << "Please confirm your selections before proceeding" >>
  ELSE <<>>

validateStage(cs, sd) == ValidateStageErrors(cs, sd) = <<>>

\* -------------------------------------------------------------- handleNext
\* the Next Stage button is drawn while currentStage < stages.length
NextButtonShown == Lt(currentStage, Len(stages))

\* click on Next Stage: handleNext runs up to the await of saveStageData
HandleNextClick ==
  /\ Clickable
  /\ NextButtonShown
  /\ isProcessing' = TRUE
  /\ nextCall' = [pc |-> "saving", currentStage |-> currentStage,
                  completedStages |-> completedStages]
  /\ UNCHANGED << documentId, currentStage, completedStages, stageData,
                  loading, validationErrors, loads, s1, uploads, toast >>
  /\ UNCHANGED appVars
  /\ UNCHANGED farVars
  /\ url' = UrlAfter(documentId', currentStage, currentStage', url)

\* handleNext that moves to the next stage before it awaits the save
HandleNextStartEager ==
  /\ Clickable
  /\ NextButtonShown
  /\ Len(completedStages) < MaxCompleted
  /\ isProcessing' = TRUE
  /\ currentStage' = Plus(currentStage, 1)
  /\ nextCall' = [pc |-> "saving", currentStage |-> currentStage,
                  completedStages |-> completedStages]
  /\ s1' = S1After(loading, currentStage', s1)
  /\ uploads' = UploadsAfter(loading, currentStage', uploads)
  /\ UNCHANGED << documentId, completedStages, stageData, loading,
                  validationErrors, loads, toast >>
  /\ UNCHANGED appVars
  /\ UNCHANGED farVars
  /\ url' = UrlAfter(documentId', currentStage, currentStage', url)

\* the click on Next Stage of a user who completes at most MaxCompleted times
HandleNextStart ==
  /\ Len(completedStages) < MaxCompleted
  /\ HandleNextClick

\* handleNext that sets completedStages to the stage shown alone
CompletedAfterNextOnly(call) == << call.currentStage >>

\* what handleNext does after the await, with the values its render had
CompletedAfterNext(call) == Append(call.completedStages, call.currentStage)

\* handleNext that marks the stage complete and stays on it
StageAfterNextStay(call, cs) == cs

\* handleNext that moves two stages on
StageAfterNextSkip(call, cs) ==
  IF Lt(call.currentStage, Len(stages)) THEN Plus(call.currentStage, 2) ELSE cs

StageAfterNext(call, cs) ==
  IF Lt(call.currentStage, Len(stages)) THEN Plus(call.currentStage, 1) ELSE cs

\* the 1000 ms timer of saveStageData fires and the promise resolves
HandleNextSaved ==
  /\ nextCall.pc = "saving"
  /\ completedStages' = CompletedAfterNext(nextCall)
  /\ currentStage' = StageAfterNext(nextCall, currentStage)
  /\ toast' = IF Lt(nextCall.currentStage, Len(stages))
                THEN "Stage " \o KeyOf(nextCall.currentStage) \o " completed!"
                ELSE toast
  /\ isProcessing' = FALSE
  /\ nextCall' = NoCall
  /\ s1' = S1After(loading, currentStage', s1)
  /\ uploads' = UploadsAfter(loading, currentStage', uploads)
  /\ UNCHANGED << documentId, stageData, loading, validationErrors, loads >>
  /\ UNCHANGED appVars
  /\ UNCHANGED farVars
  /\ url' = UrlAfter(documentId', currentStage, currentStage', url)

\* handleNext whose completion is outside the try block: a rejected save
\* is reported and the stage is completed all the same
HandleNextFailedAdvances ==
  /\ nextCall.pc = "saving"
  /\ completedStages' = CompletedAfterNext(nextCall)
  /\ currentStage' = StageAfterNext(nextCall, currentStage)
  /\ toast' = "Failed to save progress"
  /\ isProcessing' = FALSE
  /\ nextCall' = NoCall
  /\ s1' = S1After(loading, currentStage', s1)
  /\ uploads' = UploadsAfter(loading, currentStage', uploads)
  /\ UNCHANGED << documentId, stageData, loading, validationErrors, loads >>
  /\ UNCHANGED appVars
  /\ UNCHANGED farVars
  /\ url' = UrlAfter(documentId', currentStage, currentStage', url)

\* saveStageData rejects: the catch and the finally of handleNext
HandleNextFailed ==
  /\ nextCall.pc = "saving"
  /\ toast' = "Failed to save progress"
  /\ isProcessing' = FALSE
  /\ nextCall' = NoCall
  /\ UNCHANGED << documentId, currentStage, completedStages, stageData,
                  loading, validationErrors, loads, s1, uploads >>
  /\ UNCHANGED appVars
  /\ UNCHANGED farVars
  /\ url' = UrlAfter(documentId', currentStage, currentStage', url)

\* -------------------------------------------------------------- handleBack
\* handleBack that returns to the first stage
StageAfterBackToFirst(cs) == IF Gt(cs, 1) THEN 1 ELSE cs

StageAfterBack(cs) == IF Gt(cs, 1) THEN cs - 1 ELSE cs

\* click on Previous, which is disabled at stage 1 and while processing
HandleBack ==
  /\ Clickable
  /\ ~StrictEq(currentStage, 1)
  /\ currentStage' = StageAfterBack(currentStage)
  /\ s1' = S1After(loading, currentStage', s1)
  /\ uploads' = UploadsAfter(loading, currentStage', uploads)
  /\ UNCHANGED << documentId, completedStages, stageData, loading,
                  isProcessing, validationErrors, nextCall, loads, toast >>
  /\ UNCHANGED appVars
  /\ UNCHANGED farVars
  /\ url' = UrlAfter(documentId', currentStage, currentStage', url)

\* -------------------------------------------------------- handleStageClick
\* the condition under which handleStageClick lets the user enter stageNumber
StageClickAllowed(done, stageNumber) ==
  \/ Includes(done, stageNumber)
  \/ StrictEq(stageNumber, Len(done) + 1)

\* click on a step of the pipeline view
HandleStageClick(stageNumber) ==
  /\ Clickable
  /\ IF StageClickAllowed(completedStages, stageNumber)
       THEN /\ currentStage' = stageNumber
            /\ UNCHANGED toast
       ELSE /\ toast' = "Complete previous stages first"
            /\ UNCHANGED currentStage
  /\ s1' = S1After(loading, currentStage', s1)
  /\ uploads' = UploadsAfter(loading, currentStage', uploads)
  /\ UNCHANGED << documentId, completedStages, stageData, loading,
                  isProcessing, validationErrors, nextCall, loads >>
  /\ UNCHANGED appVars
  /\ UNCHANGED farVars
  /\ url' = UrlAfter(documentId', currentStage, currentStage', url)

\* ------------------------------------------------------------ Stage1Upload
\* a file is dropped on the drop zone, which is drawn while no file is set
OnDrop ==
  /\ Clickable
  /\ Stage1Mounted(loading, currentStage)
  /\ ~s1.file
  /\ s1' = [s1 EXCEPT !.file = TRUE]
  /\ UNCHANGED << documentId, currentStage, completedStages, stageData,
                  loading, isProcessing, validationErrors, nextCall, loads,
                  uploads, toast >>
  /\ UNCHANGED appVars
  /\ UNCHANGED farVars
  /\ url' = UrlAfter(documentId', currentStage, currentStage', url)

\* click on Remove or on Cancel, which are drawn while a file is set
RemoveFile ==
  /\ Clickable
  /\ Stage1Mounted(loading, currentStage)
  /\ s1.file
  /\ s1' = [s1 EXCEPT !.file = FALSE]
  /\ UNCHANGED << documentId, currentStage, completedStages, stageData,
                  loading, isProcessing, validationErrors, nextCall, loads,
                  uploads, toast >>
  /\ UNCHANGED appVars
  /\ UNCHANGED farVars
  /\ url' = UrlAfter(documentId', currentStage, currentStage', url)

\* click on Upload: handleUpload runs up to the await of fetch; its onChange
\* is the handleStageDataChange of the render that drew the button
HandleUploadStart ==
  /\ Clickable
  /\ Stage1Mounted(loading, currentStage)
  /\ s1.file /\ ~s1.uploading
  /\ Len(uploads) < MaxUploads
  /\ s1' = [s1 EXCEPT !.uploading = TRUE]
  /\ uploads' = Append(uploads, [currentStage |-> currentStage,
                                 stageData |-> stageData, alive |-> TRUE,
                                 page |-> TRUE])
  /\ UNCHANGED << documentId, currentStage, completedStages, stageData,
                  loading, isProcessing, validationErrors, nextCall, loads,
                  toast >>
  /\ UNCHANGED appVars
  /\ UNCHANGED farVars
  /\ url' = UrlAfter(documentId', currentStage, currentStage', url)

\* handleStageDataChange that clears the slot when it already holds data
StageDataAfterChangeToggle(cs, sd, data) ==
  IF KeyOf(cs) \in DOMAIN sd /\ sd[KeyOf(cs)] = data
    THEN [k \in DOMAIN sd \ {KeyOf(cs)} |-> sd[k]]
    ELSE [k \in DOMAIN sd \cup {KeyOf(cs)} |->
            IF k = KeyOf(cs) THEN data ELSE sd[k]]

\* handleStageDataChange(data) of a render with stage cs and object sd
StageDataAfterChange(cs, sd, data) ==
  [k \in DOMAIN sd \cup {KeyOf(cs)} |-> IF k = KeyOf(cs) THEN data ELSE sd[k]]

NavigatesOnChange(cs, data) == StrictEq(cs, 1) /\ Truthy(data.document_id)

DocumentIdAfterChange(cs, data, doc) ==
  IF NavigatesOnChange(cs, data) THEN data.document_id ELSE doc

\* the response of upload i arrives and is OK
HandleUploadOk(i, data) ==
  LET up == uploads[i] IN
  /\ up.page
  /\ stageData' = StageDataAfterChange(up.currentStage, up.stageData, data)
  /\ documentId' = DocumentIdAfterChange(up.currentStage, data, documentId)
  \* the effect on [documentId] starts loadWorkflowData
  /\ IF documentId' # documentId /\ Truthy(documentId')
       THEN /\ loading' = TRUE
            /\ loads' = loads \cup {documentId'}
       ELSE UNCHANGED <<loading, loads>>
  /\ toast' = "File uploaded successfully!"
  /\ s1' = S1After(loading', currentStage,
                   IF up.alive
                     THEN [s1 EXCEPT !.uploading = FALSE,
                                     !.uploadResponse = << data >>]
                     ELSE s1)
  /\ uploads' = UploadsAfter(loading', currentStage, RemoveAt(uploads, i))
  /\ UNCHANGED << currentStage, completedStages, isProcessing,
                  validationErrors, nextCall >>
  /\ UNCHANGED appVars
  /\ UNCHANGED farVars
  /\ url' = IF NavigatesOnChange(up.currentStage, data) THEN "2" ELSE url

\* a failed upload that shows a response all the same
HandleUploadFailedSetsResponse(i) ==
  LET up == uploads[i] IN
  /\ toast' = "Upload failed. Please try again."
  /\ s1' = IF up.alive
             THEN [s1 EXCEPT !.uploading = FALSE,
                             !.uploadResponse = << [document_id |-> undefined] >>]
             ELSE s1
  /\ uploads' = RemoveAt(uploads, i)
  /\ UNCHANGED << documentId, currentStage, completedStages, stageData,
                  loading, isProcessing, validationErrors, nextCall, loads >>
  /\ UNCHANGED appVars
  /\ UNCHANGED farVars
  /\ url' = UrlAfter(documentId', currentStage, currentStage', url)

\* the response of upload i is not OK, its body is not JSON, or fetch
\* throws: the catch block, then the finally block
HandleUploadFailed(i) ==
  LET up == uploads[i] IN
  /\ toast' = "Upload failed. Please try again."
  /\ s1' = IF up.alive THEN [s1 EXCEPT !.uploading = FALSE] ELSE s1
  /\ uploads' = RemoveAt(uploads, i)
  /\ UNCHANGED << documentId, currentStage, completedStages, stageData,
                  loading, isProcessing, validationErrors, nextCall, loads >>
  /\ UNCHANGED appVars
  /\ UNCHANGED farVars
  /\ url' = UrlAfter(documentId', currentStage, currentStage', url)

\* what await fetch and await response.json() can give handleUpload: fetch
\* throws, or a response arrives that is OK or not, with a body that parses
\* as JSON (body = << data >>) or does not (body = << >>)
UploadOutcomes ==
  { o \in [thrown : BOOLEAN, ok : BOOLEAN,
           body : { <<>> } \cup { << d >> : d \in UploadResponses }] :
      o.thrown => ~o.ok /\ o.body = <<>> }

\* handleUpload reaches the call of onChange
ReachesOnChange(o) == ~o.thrown /\ o.ok /\ o.body # <<>>

\* handleUpload of upload i resumes with outcome o and runs to its end; the
\* finally block clears the interval the call holds
HandleUploadEnd(i, o) ==
  IF ReachesOnChange(o)
    THEN HandleUploadOk(i, o.body[1])
    ELSE HandleUploadFailed(i)

\* click on Proceed to Data Cleansing, drawn under the summary of an upload
\* whose response carries a document_id
ProceedToCleansing ==
  /\ Clickable
  /\ Stage1Mounted(loading, currentStage)
  /\ s1.uploadResponse # <<>>
  /\ Truthy(s1.uploadResponse[1].document_id)
  /\ documentId' = s1.uploadResponse[1].document_id
  /\ IF documentId' # documentId
       THEN /\ loading' = TRUE
            /\ loads' = loads \cup {documentId'}
       ELSE UNCHANGED << loading, loads >>
  /\ s1' = S1After(loading', currentStage, s1)
  /\ uploads' = UploadsAfter(loading', currentStage, uploads)
  /\ url' = "2"
  /\ UNCHANGED << currentStage, completedStages, stageData, isProcessing,
                  validationErrors, nextCall, toast >>
  /\ UNCHANGED appVars
  /\ UNCHANGED farVars

\* ----------------------------------------------------------------- stage 2
\* stages[currentStage - 1]?.component is Stage2Cleansing
Stage2Mounted(ld, cs) == Rendered(ld) /\ cs = 2

\* what loadQualityAnalysis puts into columnIssues when the stage mounts
columnIssues ==
  << [column |-> "TOTINCM", missingCount |-> 156, outlierCount |-> 23,
      suggestedAction |-> "median"],
     [column |-> "POPU_LSA", missingCount |-> 45, outlierCount |-> 8,
      suggestedAction |-> "mean"],
     [column |-> "CENTLIB", missingCount |-> 89, outlierCount |-> 0,
      suggestedAction |-> "mode"] >>

\* the entries handleAutoClean pushes for one issue
IssueActions(issue) ==
  (IF issue.missingCount > 0
     THEN << [column |-> issue.column,
              action |-> "Imputed " \o ToString(issue.missingCount) \o
                         " missing values using " \o issue.suggestedAction] >>
     ELSE <<>>) \o
  (IF issue.outlierCount > 0
     THEN << [column |-> issue.column,
              action |-> "Capped " \o ToString(issue.outlierCount) \o
                         " outliers at 95th percentile"] >>
     ELSE <<>>)

\* the loop of handleAutoClean over the issues
RECURSIVE AutoActions(_)
AutoActions(issues) ==
  IF issues = <<>> THEN <<>>
  ELSE IssueActions(Head(issues)) \o AutoActions(Tail(issues))

\* click on Auto Clean All, disabled while processing: handleAutoClean runs
\* up to its await and keeps the cleaningActions of the render it closed over
HandleAutoCleanStart ==
  /\ Clickable
  /\ Stage2Mounted(loading, currentStage)
  /\ ~s2.processing
  /\ Len(s2.cleaningActions) + Len(AutoActions(columnIssues)) <= MaxActions
  /\ s2' = [s2 EXCEPT
              !.processing = TRUE,
              !.autoCleans = Append(@, [cleaningActions |-> s2.cleaningActions,
                                        actions |-> AutoActions(columnIssues)])]
  /\ UNCHANGED << documentId, currentStage, completedStages, stageData,
                  loading, isProcessing, validationErrors, nextCall, loads,
                  s1, uploads, toast, url, localStorage, sent, loginError,
                  runner >>
  /\ UNCHANGED appVars

\* the 2000 ms timer of a handleAutoClean fires and the call runs to its end
HandleAutoCleanDone ==
  /\ s2.autoCleans # <<>>
  /\ LET call == Head(s2.autoCleans) IN
       /\ s2' = [cleaningActions |-> call.cleaningActions \o call.actions,
                 processing |-> FALSE,
                 autoCleans |-> Tail(s2.autoCleans)]
       /\ toast' = "Data cleaned successfully! " \o
                   ToString(Len(call.actions)) \o " actions applied."
  /\ UNCHANGED << documentId, currentStage, completedStages, stageData,
                  loading, isProcessing, validationErrors, nextCall, loads,
                  s1, uploads, url, localStorage, sent, loginError, runner >>
  /\ UNCHANGED appVars

\* click on Apply Suggestion of an issue, enabled whatever processing is
HandleColumnAction(column, action) ==
  /\ Clickable
  /\ Stage2Mounted(loading, currentStage)
  /\ Len(s2.cleaningActions) < MaxActions
  /\ s2' = [s2 EXCEPT
              !.cleaningActions =
                Append(@, [column |-> column,
                           action |-> "Applied " \o action \o " to " \o column])]
  /\ toast' = action \o " applied to " \o column
  /\ UNCHANGED << documentId, currentStage, completedStages, stageData,
                  loading, isProcessing, validationErrors, nextCall, loads,
                  s1, uploads, url, localStorage, sent, loginError, runner >>
  /\ UNCHANGED appVars

\* ------------------------------------------------------ run_all_tests.sh
\* the suites in the order of the run_test calls
Suites ==
  << "API Tests", "Navigation Tests", "Component Tests", "Integration Tests",
     "Performance Tests" >>

\* the lines with a failure mark one suite may print
SuiteMarks == { 0, 1 }

\* the script up to the first run_test: $REPORT_FILE is created if its
\* directory exists, and the service checks write lines without marks to it
RunnerStart ==
  /\ runner.pc = "start"
  /\ \E w \in BOOLEAN :
       runner' = [runner EXCEPT !.pc = "suites", !.writable = w]
  /\ UNCHANGED << documentId, currentStage, completedStages, stageData,
                  loading, isProcessing, validationErrors, nextCall, loads,
                  s1, uploads, toast, url, localStorage, sent, loginError,
                  s2 >>
  /\ UNCHANGED appVars

\* run_test of the next suite, which returns status and prints marks lines
\* with a failure mark: its output is appended to the report, the line with
\* the mark of run_test itself goes to the terminal only, and the status
\* run_test returns is not looked at
RunTest(status, marks) ==
  /\ runner.pc = "suites"
  /\ Len(runner.ran) < Len(Suites)
  /\ runner' =
       [runner EXCEPT
          !.ran = Append(@, [name |-> Suites[Len(runner.ran) + 1],
                             status |-> status, marks |-> marks]),
          !.marks = IF runner.writable THEN @ + marks ELSE @]
  /\ UNCHANGED << documentId, currentStage, completedStages, stageData,
                  loading, isProcessing, validationErrors, nextCall, loads,
                  s1, uploads, toast, url, localStorage, sent, loginError,
                  s2 >>
  /\ UNCHANGED appVars

\* grep -c on the report, errors to /dev/null: the count it prints and its
\* exit status, 1 when no line matches and 2 when the file cannot be read
GrepCount(writable, marks) ==
  IF ~writable THEN [out |-> <<>>, status |-> 2]
  ELSE [out |-> << marks >>, status |-> IF marks > 0 THEN 0 ELSE 1]

\* the words of $(grep -c ... || echo 0)
OrEchoZero(g) == IF g.status = 0 THEN g.out ELSE g.out \o << 0 >>

\* the exit status of [ $failed -eq 0 ] with $failed unquoted: 2 when it is
\* not one word
TestEqZero(words) ==
  IF Len(words) # 1 THEN 2
  ELSE IF words[1] = 0 THEN 0 ELSE 1

\* the summary after the five suites, and the exit
RunnerSummary ==
  /\ runner.pc = "suites"
  /\ Len(runner.ran) = Len(Suites)
  /\ LET failed == OrEchoZero(GrepCount(runner.writable, runner.marks)) IN
       runner' =
         IF TestEqZero(failed) = 0
           THEN [runner EXCEPT !.pc = "done",
                               !.verdict = "ALL TESTS PASSED!", !.exit = 0]
           ELSE [runner EXCEPT !.pc = "done",
                               !.verdict = "SOME TESTS FAILED", !.exit = 1]
  /\ UNCHANGED << documentId, currentStage, completedStages, stageData,
                  loading, isProcessing, validationErrors, nextCall, loads,
                  s1, uploads, toast, url, localStorage, sent, loginError,
                  s2 >>
  /\ UNCHANGED appVars

\* --------------------------------------------------------- the pipeline
\* the status each entry of the stages array of Layout.tsx is written with
StageStatus(id) ==
  CASE id \in {1, 2} -> "completed"
    [] id = 3 -> "in_progress"
    [] OTHER -> "pending"

\* the completed prop WorkflowPipeline gives the Step of stage id
StepCompleted(id) == StageStatus(id) = "completed"

\* the Step the Stepper draws as active: the one whose index is activeStep,
\* which WorkflowPipeline sets to currentStage - 1
StepActive(cs, id) == StrictEq(id - 1, Plus(cs, -1))

\* ------------------------------------------------ leaving and entering
\* the uploads whose WorkflowPage is gone: their onChange still navigates
Orphaned(ups) ==
  [i \in DOMAIN ups |-> [ups[i] EXCEPT !.alive = FALSE, !.page = FALSE]]

\* no WorkflowPage is mounted: React has dropped the state of its hooks,
\* and the setters its pending timers call no longer reach a component
NoPage ==
  /\ documentId' = undefined
  /\ currentStage' = 1
  /\ completedStages' = <<>>
  /\ stageData' = EmptyObject
  /\ loading' = FALSE
  /\ isProcessing' = FALSE
  /\ validationErrors' = <<>>
  /\ nextCall' = NoCall
  /\ loads' = {}
  /\ s1' = S1Init
  /\ confirmDialog' = FALSE
  /\ url' = "none"

\* the router takes WorkflowPage off the screen
LeavePage == NoPage /\ uploads' = Orphaned(uploads)

\* WorkflowPage is mounted on route r: its hooks start as in Init
EnterPage(r) ==
  /\ documentId' = r.documentId
  /\ currentStage' = ParseInt(IF r.stage # <<>> THEN r.stage ELSE <<"1">>)
  /\ completedStages' = <<>>
  /\ stageData' = EmptyObject
  /\ isProcessing' = FALSE
  /\ validationErrors' = <<>>
  /\ nextCall' = NoCall
  /\ loading' = Truthy(r.documentId)
  /\ loads' = IF Truthy(r.documentId) THEN {r.documentId} ELSE {}
  /\ s1' = S1Init
  /\ confirmDialog' = FALSE
  /\ location' = "workflow"
  /\ url' = UrlOnMount(r)

\* ------------------------------------------------------ Completion Dialog
\* the buttons of the Dialog, which is drawn above the page while open
DialogClickable ==
  location = "workflow" /\ Rendered(loading) /\ confirmDialog

\* click on Complete Workflow, drawn in place of Next Stage at the last stage
OpenConfirmDialog ==
  /\ Clickable
  /\ ~NextButtonShown
  /\ confirmDialog' = TRUE
  /\ UNCHANGED << documentId, currentStage, completedStages, stageData,
                  loading, isProcessing, validationErrors, nextCall, loads,
                  s1, uploads, toast, location, authStore, url >>
  /\ UNCHANGED farVars

\* click on Cancel, or the Dialog is closed
CancelConfirmDialog ==
  /\ DialogClickable
  /\ confirmDialog' = FALSE
  /\ UNCHANGED << documentId, currentStage, completedStages, stageData,
                  loading, isProcessing, validationErrors, nextCall, loads,
                  s1, uploads, toast, location, authStore, url >>
  /\ UNCHANGED farVars

\* click on Complete: a toast, and navigate('/') shows the Dashboard
ConfirmComplete ==
  /\ DialogClickable
  /\ toast' = "Workflow completed successfully!"
  /\ location' = "dashboard"
  /\ LeavePage
  /\ UNCHANGED authStore
  /\ UNCHANGED farVars

\* the response of an upload arrives after its WorkflowPage is gone: the
\* onChange of the old render sets state on nothing and may navigate
OrphanUploadOk(i, data) ==
  LET up == uploads[i]
      r == [documentId |-> data.document_id, stage |-> <<"2">>]
  IN
  /\ ~up.page
  /\ toast' = "File uploaded successfully!"
  /\ UNCHANGED << authStore, localStorage, sent, s2, runner >>
  \* a LoginPage on the screen is taken off it by the navigation
  /\ loginError' = IF NavigatesOnChange(up.currentStage, data)
                     THEN "" ELSE loginError
  /\ IF ~NavigatesOnChange(up.currentStage, data)
       THEN /\ uploads' = RemoveAt(uploads, i)
            /\ UNCHANGED << documentId, currentStage, completedStages,
                            stageData, loading, isProcessing, validationErrors,
                            nextCall, loads, s1, confirmDialog, location,
                            url >>
     ELSE IF ~authStore.isAuthenticated
       \* the route element is <Navigate to="/login" />
       THEN /\ location' = "login"
            /\ uploads' = RemoveAt(uploads, i)
            /\ UNCHANGED << documentId, currentStage, completedStages,
                            stageData, loading, isProcessing, validationErrors,
                            nextCall, loads, s1, confirmDialog, url >>
     ELSE IF location = "workflow"
       \* the same WorkflowPage stays mounted and sees a new :documentId
       THEN /\ documentId' = data.document_id
            /\ IF documentId' # documentId
                 THEN /\ loading' = TRUE
                      /\ loads' = loads \cup {documentId'}
                 ELSE UNCHANGED << loading, loads >>
            /\ s1' = S1After(loading', currentStage, s1)
            /\ uploads' = UploadsAfter(loading', currentStage,
                                       RemoveAt(uploads, i))
            /\ url' = "2"
            /\ UNCHANGED << currentStage, completedStages, stageData,
                            isProcessing, validationErrors, nextCall,
                            confirmDialog, location >>
       ELSE /\ EnterPage(r)
            /\ uploads' = RemoveAt(uploads, i)

\* ------------------------------------------------------- login and logout
\* what the user types into the form of LoginPage
Credentials ==
  { [email |-> "demo@mospi.gov.in", password |-> "demo123"],
    [email |-> "demo@mospi.gov.in", password |-> "wrong"],
    [email |-> "someone@mospi.gov.in", password |-> "demo123"],
    [email |-> "Demo@mospi.gov.in", password |-> "demo123"],
    [email |-> "demo@mospi.gov.in", password |-> "demo123 "] }

\* a login that looks at the email only
ValidCredentialsAnyPassword(c) == c.email = "demo@mospi.gov.in"

\* the test of login in the store
ValidCredentials(c) ==
  c.email = "demo@mospi.gov.in" /\ c.password = "demo123"

\* submit of the login form: login sets the store and navigate('/') follows;
\* a rejected login shows a message and leaves the store alone
HandleSubmit(c) ==
  /\ location = "login"
  /\ IF ValidCredentials(c)
       THEN \E t \in Times :
              /\ authStore' = LoggedInAt(t)
              /\ localStorage' = StorageAfterLogin(localStorage, authStore')
              /\ location' = "dashboard"
              \* LoginPage leaves the screen with the message it cleared
              /\ loginError' = ""
       ELSE /\ loginError' = "Invalid credentials"
            /\ UNCHANGED << authStore, localStorage, location >>
  /\ UNCHANGED << documentId, currentStage, completedStages, stageData,
                  loading, isProcessing, validationErrors, nextCall, loads,
                  s1, uploads, toast, confirmDialog, url, sent, s2, runner >>

\* Logout in the profile menu of Layout: logout() and navigate('/login')
HandleLogout ==
  /\ location \in {"workflow", "dashboard"}
  /\ ~isProcessing /\ ~confirmDialog
  /\ authStore' = LoggedOut
  /\ localStorage' = StorageAfterLogout(localStorage)
  /\ location' = "login"
  /\ LeavePage
  /\ UNCHANGED << toast, sent, loginError, s2, runner >>

\* setUser of the store, which no component calls yet
SetUser(u) ==
  /\ authStore' = [authStore EXCEPT !.user = u]
  /\ localStorage' = Persisted(localStorage, authStore')
  /\ UNCHANGED << documentId, currentStage, completedStages, stageData,
                  loading, isProcessing, validationErrors, nextCall, loads,
                  s1, uploads, toast, confirmDialog, location, url, sent,
                  loginError, s2, runner >>

\* App that draws Layout whoever asks
PageOfOpen(path, isAuthenticated) ==
  IF path = "/login" THEN "login"
  ELSE IF path = "/" THEN "dashboard"
  ELSE "workflow"

\* the element App draws for a path
PageOf(path, isAuthenticated) ==
  IF path = "/login" THEN "login"
  ELSE IF ~isAuthenticated THEN "login"
  ELSE IF path = "/" THEN "dashboard"
  ELSE "workflow"

\* the ids of the workflows the Dashboard lists
DashboardIds == { "1" }

\* the routes the buttons of the Dashboard navigate to
DashboardRoutes ==
  { [documentId |-> undefined, stage |-> <<>>] } \cup
  { [documentId |-> d, stage |-> p] : d \in DashboardIds, p \in {<<>>, <<"1">>} }

\* a button of the Dashboard opens a workflow
OpenWorkflow(r) ==
  /\ location = "dashboard"
  /\ EnterPage(r)
  /\ UNCHANGED << uploads, toast, authStore >>
  /\ UNCHANGED farVars

\* the Dashboard item of the side bar: navigate('/')
GoDashboard ==
  /\ location = "workflow"
  /\ ~isProcessing /\ ~confirmDialog
  /\ location' = "dashboard"
  /\ LeavePage
  /\ UNCHANGED << toast, authStore >>
  /\ UNCHANGED farVars

\* the paths a user can ask the browser for
Paths == { "/login", "/", "/workflow/new", "/workflow/:documentId",
           "/workflow/:documentId/:stage" }

\* the routes of path
RoutesOf(path) ==
  { r \in Routes :
      CASE path = "/workflow/new" -> r.documentId = undefined
        [] path = "/workflow/:documentId" ->
             r.documentId # undefined /\ r.stage = <<>>
        [] path = "/workflow/:documentId/:stage" ->
             r.documentId # undefined /\ r.stage # <<>>
        [] OTHER -> FALSE }

\* the store as persist restores it from what it wrote under auth-storage
Rehydrated(ls) ==
  IF "auth-storage" \in DOMAIN ls THEN ls["auth-storage"] ELSE LoggedOut

\* the browser loads the application on path: what was in memory is gone,
\* and persist gives the store back what it held
Load(path, ls) ==
  /\ uploads' = <<>>
  /\ toast' = "none"
  /\ loginError' = ""
  /\ authStore' = Rehydrated(ls)
  /\ IF PageOf(path, authStore'.isAuthenticated) = "workflow"
       THEN \E r \in RoutesOf(path) : EnterPage(r)
       ELSE /\ NoPage
            /\ location' = PageOf(path, authStore'.isAuthenticated)

\* the user asks the browser for path
OpenUrl(path) ==
  /\ Load(path, localStorage)
  /\ UNCHANGED << localStorage, sent, s2, runner >>

\* the answers of the backend the response interceptor tells apart
Statuses == { 200, 401, 500 }

\* the Authorization header the request interceptor leaves on a request
AuthorizationOf(ls) ==
  IF GetItem(ls, "token") # "null"
    THEN "Bearer " \o GetItem(ls, "token")
    ELSE "none"

\* a request through the shared client that the backend answers with status
ApiRequest(status) ==
  /\ sent' = AuthorizationOf(localStorage)
  /\ UNCHANGED << s2, runner >>
  /\ IF status = 401
       \* the token is dropped and window.location.href = '/login'
       THEN /\ localStorage' = RemoveItem(localStorage, "token")
            /\ Load("/login", localStorage')
       ELSE /\ toast' = IF status = 500
                          THEN "Server error. Please try again later."
                          ELSE toast
            /\ UNCHANGED << documentId, currentStage, completedStages,
                            stageData, loading, isProcessing, validationErrors,
                            nextCall, loads, s1, uploads, confirmDialog,
                            location, authStore, url, localStorage,
                            loginError >>

\* ------------------------------------------------------------------ steps
Next ==
  \/ LoadWorkflowDataDone
  \/ HandleNextStart
  \/ HandleNextSaved
  \/ HandleBack
  \/ \E stageNumber \in StageIds : HandleStageClick(stageNumber)
  \/ OnDrop
  \/ RemoveFile
  \/ HandleUploadStart
  \/ \E i \in DOMAIN uploads, data \in UploadResponses : HandleUploadOk(i, data)
  \/ \E i \in DOMAIN uploads : HandleUploadFailed(i)
  \/ ProceedToCleansing

Spec == Init /\ [][Next]_vars

\* the page opened on /workflow/new
InitNew == Init /\ documentId = undefined

SpecNew == InitNew /\ [][Next]_vars

\* a pending handleUpload resumes with some outcome
UploadEnds ==
  \E i \in DOMAIN uploads, o \in UploadOutcomes : HandleUploadEnd(i, o)

\* a fresh page whose upload requests all settle: fetch resolves with a
\* response or rejects
SpecUploadFair == SpecNew /\ WF_vars(UploadEnds)

\* the page bound to a backend whose save and whose load may be rejected
NextFallible == Next \/ HandleNextFailed \/ LoadWorkflowDataFailed

SpecFallible == Init /\ [][NextFallible]_vars

\* the timers of the browser fire, and a response to a save or to a load
\* arrives: a pending handleNext and a pending loadWorkflowData resume
SpecFallibleFair ==
  /\ SpecFallible
  /\ WF_vars(HandleNextSaved \/ HandleNextFailed)
  /\ WF_vars(LoadWorkflowDataDone \/ LoadWorkflowDataFailed)

\* the page under a user who only goes forward: Next Stage at every stage,
\* then Complete Workflow
NextForward ==
  \/ LoadWorkflowDataDone
  \/ HandleNextClick
  \/ HandleNextSaved
  \/ OnDrop
  \/ RemoveFile
  \/ HandleUploadStart
  \/ \E i \in DOMAIN uploads, data \in UploadResponses : HandleUploadOk(i, data)
  \/ \E i \in DOMAIN uploads : HandleUploadFailed(i)
  \/ ProceedToCleansing
  \/ OpenConfirmDialog
  \/ CancelConfirmDialog
  \/ ConfirmComplete
  \/ \E i \in DOMAIN uploads, data \in UploadResponses : OrphanUploadOk(i, data)

SpecForward == Init /\ [][NextForward]_vars

\* a fresh page under a user who keeps pressing Next Stage, with timers that
\* fire and saves that resolve
SpecForwardFair ==
  /\ InitNew
  /\ [][NextForward]_vars
  /\ WF_vars(HandleNextClick)
  /\ WF_vars(HandleNextSaved)
  /\ WF_vars(LoadWorkflowDataDone)

\* stage 2 of a fresh workflow whose stage 1 was completed with Next Stage
InitStage2 ==
  /\ documentId = undefined
  /\ currentStage = 2
  /\ completedStages = <<1>>
  /\ stageData = EmptyObject
  /\ loading = FALSE
  /\ isProcessing = FALSE
  /\ validationErrors = <<>>
  /\ nextCall = NoCall
  /\ loads = {}
  /\ s1 = S1Init
  /\ uploads = <<>>
  /\ toast = "Stage 1 completed!"
  /\ confirmDialog = FALSE
  /\ location = "workflow"
  /\ authStore = LoggedIn
  /\ localStorage = StorageAfterLogin(EmptyStorage, LoggedIn)
  /\ url = "none"
  /\ sent = "none"
  /\ loginError = ""
  /\ s2 = S2Init
  /\ runner = RunnerInit

NextStage2 ==
  \/ HandleAutoCleanStart
  \/ HandleAutoCleanDone
  \/ \E i \in DOMAIN columnIssues :
       HandleColumnAction(columnIssues[i].column,
                          columnIssues[i].suggestedAction)

SpecStage2 == InitStage2 /\ [][NextStage2]_vars

\* the application: login, Dashboard, and the workflow page under a user
\* who only goes forward in it
InitApp ==
  /\ documentId = undefined
  /\ currentStage = 1
  /\ completedStages = <<>>
  /\ stageData = EmptyObject
  /\ loading = FALSE
  /\ isProcessing = FALSE
  /\ validationErrors = <<>>
  /\ nextCall = NoCall
  /\ loads = {}
  /\ s1 = S1Init
  /\ uploads = <<>>
  /\ toast = "none"
  /\ confirmDialog = FALSE
  \* the first visit: nothing persisted, every path ends on the login page
  /\ location = "login"
  /\ authStore = LoggedOut
  /\ localStorage = EmptyStorage
  /\ url = "none"
  /\ sent = "none"
  /\ loginError = ""
  /\ s2 = S2Init
  /\ runner = RunnerInit

NextApp ==
  \/ NextForward
  \/ \E c \in Credentials : HandleSubmit(c)
  \/ HandleLogout
  \/ \E r \in DashboardRoutes : OpenWorkflow(r)
  \/ GoDashboard
  \/ \E path \in Paths : OpenUrl(path)
  \/ \E u \in Users : SetUser(u)
  \/ \E status \in Statuses : ApiRequest(status)

SpecApp == InitApp /\ [][NextApp]_vars

NextRunner ==
  \/ RunnerStart
  \/ \E status \in {0, 1}, marks \in SuiteMarks : RunTest(status, marks)
  \/ RunnerSummary

\* one run of run_all_tests.sh, next to an application nobody touches
SpecRunner == InitApp /\ [][NextRunner]_vars

TypeOK ==
  /\ documentId \in DocumentIds \cup DashboardIds \cup {"doc1"}
  /\ currentStage \in Int
  /\ loading \in BOOLEAN /\ isProcessing \in BOOLEAN
  /\ isProcessing <=> nextCall.pc = "saving"
  /\ validationErrors = <<>>
  /\ Len(completedStages) <= MaxCompleted
  /\ Len(uploads) <= MaxUploads
  /\ Stage1Mounted(loading, currentStage) \/ s1 = S1Init
  /\ confirmDialog \in BOOLEAN
  /\ location \in {"login", "dashboard", "workflow"}
  /\ authStore \in
       [user : Users \cup {"null"},
        token : {LoggedInAt(t).token : t \in Times} \cup {"null"},
        isAuthenticated : BOOLEAN]
  /\ url \in STRING
  /\ sent = "none"
  /\ loginError \in {"", "Invalid credentials"}
  /\ location = "login" \/ loginError = ""

\* ------------------------------------------------------------- properties
SetOf(arr) == { arr[i] : i \in DOMAIN arr }

MaxOf(S) == CHOOSE m \in S : \A x \in S : x <= m

\* the furthest completed stage, 0 when there is none
Furthest(done) == MaxOf({ x \in SetOf(done) : x # NaN } \cup {0})

\* canEnter of the specification
CanEnter(done, s) == s \in SetOf(done) \/ s = Furthest(done) + 1

\* the step in which a handleNext leaves its await with the save resolved
NextSavedStep ==
  /\ nextCall.pc = "saving" /\ nextCall'.pc = "idle"
  /\ toast' # "Failed to save progress"

\* the step in which a handleNext leaves its await with the save rejected
NextFailedStep ==
  /\ nextCall.pc = "saving" /\ nextCall'.pc = "idle"
  /\ toast' = "Failed to save progress"

\* the step in which a handleNext starts
NextStartStep == nextCall.pc = "idle" /\ nextCall'.pc = "saving"

\* C1: currentStage is an integer in 1..7 in every reachable state
C1_CurrentStageInRange == currentStage \in 1..7

\* C2: the navigation guard admits stage s exactly when s is completed or is
\* the stage after the furthest completed one
C2_GuardIsCanEnter ==
  \A s \in StageIds :
    StageClickAllowed(completedStages, s) <=> CanEnter(completedStages, s)

\* C3: the stage shown is never more than one past the furthest completed one
C3_NeverJumpsAhead ==
  currentStage # NaN /\ currentStage <= Furthest(completedStages) + 1

\* C4: a completed stage n > 1 has its predecessor n - 1 completed
C4_NoStageSkipped ==
  \A n \in SetOf(completedStages) :
    n > 1 => (n - 1) \in SetOf(completedStages)

\* C5 as stated: no stage beyond the current one is marked complete
C5_CompletedWithinCurrent ==
  \A n \in SetOf(completedStages) : n \in 1..currentStage

\* C5 as amended: a step that puts a stage into completedStages puts in a
\* stage that is not beyond the stage current after the step
C5_AddedWithinCurrent ==
  [][\A i \in DOMAIN completedStages' :
       (i \notin DOMAIN completedStages
          \/ completedStages'[i] # completedStages[i])
       => completedStages'[i] <= currentStage']_vars

C5_Witness ==
  /\ completedStages = <<1, 2>>
  /\ currentStage = 3
  /\ toast = "Stage 2 completed!"

\* C6: a successful completion appends the stage shown to completedStages and
\* moves to the stage after it; from a fresh page at stage 1 the result is
\* completedStages = [1], currentStage = 2
C6_CompletionAdvances ==
  [][NextSavedStep =>
       /\ completedStages' = Append(completedStages, currentStage)
       /\ Lt(currentStage, 7) => currentStage' = currentStage + 1
       /\ (completedStages = <<>> /\ currentStage = 1)
            => (completedStages' = <<1>> /\ currentStage' = 2)]_vars

C6_Witness ==
  /\ completedStages = <<1>>
  /\ currentStage = 2
  /\ toast = "Stage 1 completed!"
  /\ ~isProcessing

\* C7: a handleNext whose save is rejected changes neither currentStage nor
\* completedStages nor stageData: they are as they were when it started
C7_FailedSaveChangesNothing ==
  [][/\ NextStartStep => UNCHANGED <<currentStage, completedStages, stageData>>
     /\ NextFailedStep =>
          /\ UNCHANGED <<currentStage, completedStages, stageData>>
          /\ currentStage' = nextCall.currentStage
          /\ completedStages' = nextCall.completedStages]_vars

C7_Witness ==
  /\ toast = "Failed to save progress"
  /\ ~isProcessing
  /\ completedStages = <<1>>
  /\ currentStage = 2

\* C8: currentStage and completedStages do not change in a step that leaves
\* the save of a handleNext pending: they change only once it has resolved
C8_SaveBeforeAdvance ==
  [][nextCall'.pc = "saving" => UNCHANGED <<currentStage, completedStages>>]_vars

C8_Witness ==
  /\ nextCall.pc = "saving"
  /\ isProcessing
  /\ nextCall.currentStage = 2
  /\ currentStage = 2
  /\ completedStages = <<1>>

\* C9: a completion attempt issues its save only when the validation of the
\* stage shown passes
C9_SaveOnlyIfValid ==
  [][NextStartStep => validateStage(currentStage, stageData)]_vars

\* C10: recording a payload for the stage shown, when that stage is already
\* completed, leaves no later stage in completedStages
C10_EditInvalidatesLater ==
  [][(stageData' # stageData /\ Includes(completedStages, currentStage))
       => /\ currentStage' = currentStage
          /\ \A n \in SetOf(completedStages') : n <= currentStage]_vars

\* the step in which the Complete button of the Dialog is pressed
ConfirmStep ==
  confirmDialog /\ toast' = "Workflow completed successfully!"

\* C11: confirming Complete Workflow with stages 1..6 completed and stage 7
\* shown leaves stages 1..7 completed and stage 7 shown, and currentStage is
\* never 8
C11_LastStageCompletes ==
  /\ [][(ConfirmStep /\ SetOf(completedStages) = 1..6 /\ currentStage = 7)
         => (SetOf(completedStages') = 1..7 /\ currentStage' = 7)]_vars
  /\ [](currentStage # 8)

\* C12: handleBack lowers currentStage by exactly one when it is above 1,
\* leaves it at 1, and changes neither completedStages nor stageData; from
\* [1, 2] at stage 3 it shows stage 2
C12_BackFrame ==
  [][HandleBack =>
       /\ (currentStage # NaN /\ currentStage > 1)
            => currentStage' = currentStage - 1
       /\ currentStage = 1 => currentStage' = 1
       /\ StageAfterBack(1) = 1
       /\ UNCHANGED << completedStages, stageData >>
       /\ (completedStages = <<1, 2>> /\ currentStage = 3)
            => (completedStages' = <<1, 2>> /\ currentStage' = 2)]_vars

C12_Witness ==
  /\ completedStages = <<1, 2>>
  /\ currentStage = 2
  /\ toast = "Stage 2 completed!"
  /\ ~isProcessing

\* C13: handleStageDataChange called again with the same data on the state
\* its first call left gives that state again
C13_RecordIsIdempotent ==
  \A data \in UploadResponses :
    LET once == StageDataAfterChange(currentStage, stageData, data)
        docOnce == DocumentIdAfterChange(currentStage, data, documentId)
    IN /\ once[KeyOf(currentStage)] = data
       /\ StageDataAfterChange(currentStage, once, data) = once
       /\ DocumentIdAfterChange(currentStage, data, docOnce) = docOnce

C13_Witness ==
  /\ DOMAIN stageData = {"1"}
  /\ toast = "File uploaded successfully!"
  /\ Len(uploads) = 1
  /\ uploads[1].stageData = stageData
  /\ uploads[1].currentStage = currentStage

\* C14: a recording of data sets stageData[currentStage] to data and leaves
\* the other payloads, completedStages and currentStage alone; handleNext,
\* handleBack and handleStageClick leave every payload alone
C14_RecordsCurrentSlot ==
  [][/\ \A i \in DOMAIN uploads, data \in UploadResponses :
          HandleUploadOk(i, data) =>
            /\ DOMAIN stageData' = DOMAIN stageData \cup {KeyOf(currentStage)}
            /\ stageData'[KeyOf(currentStage)] = data
            /\ \A k \in DOMAIN stageData \ {KeyOf(currentStage)} :
                 stageData'[k] = stageData[k]
            /\ UNCHANGED << completedStages, currentStage >>
     /\ (\/ HandleNextStart \/ HandleNextSaved \/ HandleBack
         \/ \E stageNumber \in StageIds : HandleStageClick(stageNumber))
          => UNCHANGED stageData]_vars

\* the step in which the loadWorkflowData of the mount finishes
FirstLoadDone(d) ==
  /\ loads = {d} /\ loads' = {}
  /\ loading /\ ~loading'
  /\ uploads = <<>> /\ toast = "none"

\* C15: when the load of the mount has finished, the demo document shows
\* stage 3 with [1, 2] completed, and a document with nothing to resume
\* shows stage 1 with nothing completed and no payload
C15_InitialState ==
  [][\A d \in loads :
       FirstLoadDone(d) =>
         IF d = "demo"
           THEN currentStage' = 3 /\ completedStages' = <<1, 2>>
           ELSE /\ currentStage' = 1
                /\ completedStages' = <<>>
                /\ stageData' = EmptyObject]_vars

\* C16: a step of handleNext, handleBack or handleStageClick leaves every
\* completed stage completed
C16_CompletedNeverShrinks ==
  [][(\/ HandleNextStart \/ HandleNextSaved \/ HandleNextFailed \/ HandleBack
      \/ \E stageNumber \in StageIds : HandleStageClick(stageNumber))
       => SetOf(completedStages) \subseteq SetOf(completedStages')]_vars

C16_Witness ==
  /\ completedStages = <<1, 2>>
  /\ currentStage = 1
  /\ toast = "Stage 2 completed!"
  /\ ~isProcessing

\* the stages handleStageClick admits when done is completed
Admitted(done) == { s \in StageIds : StageClickAllowed(done, s) }

\* C17: completing a stage that is already completed leaves the set of
\* completed stages and the set of stages the guard admits as they were,
\* and shows the stage after it
C17_RetryIsIdempotent ==
  [][(NextSavedStep /\ Includes(completedStages, currentStage))
       => /\ SetOf(completedStages') = SetOf(completedStages)
          /\ currentStage' = Plus(currentStage, 1)
          /\ Admitted(completedStages') = Admitted(completedStages)]_vars

\* C18: on a fresh page, while the page is shown currentStage moves only to
\* the stage after it, and stage 7 is reached with stages 1..6 completed
C18_ForwardProgress ==
  /\ [][(location = "workflow" /\ location' = "workflow")
         => (currentStage' = currentStage
               \/ currentStage' = currentStage + 1)]_vars
  /\ <>(/\ location = "workflow"
        /\ currentStage = 7
        /\ completedStages = <<1, 2, 3, 4, 5, 6>>)

C18_Witness ==
  /\ location = "workflow"
  /\ currentStage = 7
  /\ completedStages = <<1, 2, 3, 4, 5, 6>>
  /\ toast = "Stage 6 completed!"

\* C19: a handleNext that has started finishes and clears isProcessing, and
\* a loadWorkflowData that has started finishes and clears loading, whether
\* the save or the load succeeds or fails
C19_NoFailureIsFatal ==
  /\ (nextCall.pc = "saving") ~> (nextCall.pc = "idle" /\ ~isProcessing)
  /\ (loads # {}) ~> (loads = {} /\ ~loading)

C19_Witness ==
  /\ toast = "Failed to load workflow data"
  /\ loads = {}
  /\ ~loading

\* C20: the Dashboard and the workflow page are shown only to a logged-in
\* user, and asking for a protected path while logged out shows the login
\* page
C20_ProtectedRoutes ==
  /\ [](location \in {"dashboard", "workflow"} => authStore.isAuthenticated)
  /\ [][\A path \in Paths \ {"/login"} :
          (OpenUrl(path) /\ ~authStore.isAuthenticated)
            => location' = "login"]_vars

C20_Witness ==
  /\ location = "login"
  /\ authStore = LoggedOut
  /\ toast = "Stage 1 completed!"

\* C21: a submit of the login form authenticates exactly when the pair is
\* demo@mospi.gov.in / demo123: then the store holds a user and a token, is
\* authenticated, and auth-token holds that token; any other pair shows
\* 'Invalid credentials' and leaves the store and auth-token as they were
C21_LoginIffDemoCredentials ==
  [][\A c \in Credentials :
       HandleSubmit(c) =>
         IF c.email = "demo@mospi.gov.in" /\ c.password = "demo123"
           THEN /\ authStore'.isAuthenticated
                /\ authStore'.user # "null"
                /\ authStore'.token # "null"
                /\ GetItem(localStorage', "auth-token") = authStore'.token
           ELSE /\ loginError' = "Invalid credentials"
                /\ authStore' = authStore
                /\ GetItem(localStorage', "auth-token") =
                     GetItem(localStorage, "auth-token")]_vars

\* a login went through, and a later submit on /login was turned down
C21_Witness ==
  /\ location = "login"
  /\ loginError = "Invalid credentials"
  /\ authStore.isAuthenticated
  /\ GetItem(localStorage, "auth-token") = authStore.token

\* C22: validation can be met from what the page records: with an upload
\* payload recorded for stage 1, validateStage passes at stage 1; at stages
\* 3, 4, 5 and 7 it passes always; at stages 1, 2 and 6 it fails with a
\* message while the flag it asks for is missing
C22_ValidationSatisfiable ==
  /\ KeyOf(1) \in DOMAIN stageData => validateStage(1, stageData)
  /\ \A n \in {3, 4, 5, 7} : validateStage(n, stageData)
  /\ ~HasTruthy(stageData, "fileUploaded") =>
       ~validateStage(1, stageData) /\ ValidateStageErrors(1, stageData) # <<>>
  /\ ~HasTruthy(stageData, "cleaningComplete") =>
       ~validateStage(2, stageData) /\ ValidateStageErrors(2, stageData) # <<>>
  /\ ~HasTruthy(stageData, "userConfirmed") =>
       ~validateStage(6, stageData) /\ ValidateStageErrors(6, stageData) # <<>>

\* C23: the address follows the stage: with a documentId that is present
\* and not 'new', the :stage segment of the address is the stage shown
C23_UrlFollowsStage ==
  (location = "workflow" /\ Truthy(documentId) /\ documentId # "new") =>
    url = KeyOf(currentStage)

\* C24: the pipeline shows the progress of the page: it draws a stage as
\* completed exactly when the stage is in completedStages, and as active
\* exactly when it is currentStage
C24_PipelineShowsProgress ==
  (location = "workflow" /\ Rendered(loading)) =>
    \A id \in StageIds :
      /\ StepCompleted(id) <=> id \in SetOf(completedStages)
      /\ StepActive(currentStage, id) <=> id = currentStage

\* C25: between a login and the next logout every request through the
\* shared client carries 'Bearer <token>' with the token of that login, and
\* a request made while nobody is logged in carries no Authorization header
C25_RequestsCarryToken ==
  [][\A status \in Statuses :
       ApiRequest(status) =>
         sent' = IF authStore.isAuthenticated
                   THEN "Bearer " \o authStore.token
                   ELSE "none"]_vars

\* the step is the end of upload i in which onChange ran
OnChangeCalled(i) == \E data \in UploadResponses : HandleUploadOk(i, data)

\* the step is the end of upload i that left the payloads and the response
\* shown as they were
NothingRecorded(i) ==
  /\ ~OnChangeCalled(i)
  /\ stageData' = stageData
  /\ s1'.uploadResponse = s1.uploadResponse

\* the step ended upload i: its interval is cleared with the call, and the
\* Stage1Upload that started it, if still mounted, is no longer uploading
UploadEnded(i) ==
  /\ Len(uploads') = Len(uploads) - 1
  /\ uploads[i].alive => ~s1'.uploading

\* C26 as stated: handleUpload calls onChange exactly when the response is
\* OK, records nothing otherwise, and every started upload ends with
\* uploading = false and the interval cleared
C26_PayloadIffResponseOk ==
  [][\A i \in DOMAIN uploads, o \in UploadOutcomes :
       HandleUploadEnd(i, o) =>
         /\ UploadEnded(i)
         /\ IF ~o.thrown /\ o.ok
              THEN OnChangeCalled(i)
              ELSE NothingRecorded(i)]_vars

\* C26: handleUpload runs only with a file selected and calls onChange
\* exactly when the response is OK and its body parses as JSON; when the
\* response is not OK, the body does not parse or the request throws, no
\* payload is recorded and uploadResponse stays as it was; every started
\* upload ends with uploading = false and the interval cleared
C26_PayloadIffParsedOk ==
  /\ [][HandleUploadStart => s1.file]_vars
  /\ [][\A i \in DOMAIN uploads, o \in UploadOutcomes :
          HandleUploadEnd(i, o) =>
            /\ UploadEnded(i)
            /\ IF ReachesOnChange(o)
                 THEN /\ OnChangeCalled(i)
                      /\ stageData' = StageDataAfterChange(
                           uploads[i].currentStage, uploads[i].stageData,
                           o.body[1])
                 ELSE NothingRecorded(i)]_vars
  /\ s1.uploading ~> ~s1.uploading

\* an upload was recorded, and a later one failed and left it in place
C26_Witness ==
  /\ toast = "Upload failed. Please try again."
  /\ KeyOf(1) \in DOMAIN stageData
  /\ s1.uploadResponse # <<>>
  /\ ~s1.uploading
  /\ uploads = <<>>

\* C27: completions are serialized: while a save is pending the stage shown
\* and completedStages are the ones its handleNext started from, no step
\* but the end of that handleNext changes them, and when the save resolves
\* the stage marked complete is the stage shown and the stage after it is
\* shown next
C27_CompletionsSerialized ==
  /\ [](isProcessing =>
          /\ nextCall.currentStage = currentStage
          /\ nextCall.completedStages = completedStages)
  /\ [][(isProcessing /\ ~NextSavedStep) =>
          UNCHANGED <<currentStage, completedStages>>]_vars
  /\ [][NextSavedStep =>
          /\ completedStages' = Append(completedStages, currentStage)
          /\ currentStage' = currentStage + 1]_vars

\* a save is pending at stage 2 with Back and the pipeline on the screen
C27_Witness ==
  /\ isProcessing
  /\ currentStage = 2
  /\ completedStages = <<1>>
  /\ nextCall.currentStage = 2
  /\ Rendered(loading)
  /\ location = "workflow"

\* C28: the auth store stays consistent under login, logout and setUser:
\* isAuthenticated exactly when a token is held, a user is held whenever
\* isAuthenticated, and a logout leaves user and token null,
\* isAuthenticated false and no auth-token in localStorage
C28_AuthStoreConsistent ==
  /\ [](authStore.isAuthenticated <=> authStore.token # "null")
  /\ [](authStore.isAuthenticated => authStore.user # "null")
  /\ [][HandleLogout =>
          /\ authStore'.user = "null"
          /\ authStore'.token = "null"
          /\ ~authStore'.isAuthenticated
          /\ "auth-token" \notin DOMAIN localStorage']_vars

\* a second login, then setUser with another user
C28_Witness ==
  /\ authStore.isAuthenticated
  /\ authStore.user = "Field Officer"
  /\ authStore.token = LoggedInAt(2).token
  /\ GetItem(localStorage, "auth-token") = authStore.token

\* C29: the cleaning log of stage 2 only grows: every entry of
\* cleaningActions is still in it after any step, an entry applied while
\* handleAutoClean waits included
C29_CleaningLogAppendOnly ==
  [][\A i \in DOMAIN s2.cleaningActions :
       \E j \in DOMAIN s2'.cleaningActions :
         s2'.cleaningActions[j] = s2.cleaningActions[i]]_vars

\* C30: run_all_tests.sh runs the five suites in the order API, Navigation,
\* Component, Integration, Performance whatever the earlier ones returned,
\* and it prints 'ALL TESTS PASSED' and exits 0 exactly when no suite
\* failed, that is none returned non-zero and the report holds no failure
\* mark; otherwise it exits 1
C30_VerdictIffNoSuiteFailed ==
  runner.pc = "done" =>
    /\ [i \in DOMAIN runner.ran |-> runner.ran[i].name] = Suites
    /\ LET noneFailed ==
             /\ \A i \in DOMAIN runner.ran : runner.ran[i].status = 0
             /\ runner.marks = 0
       IN /\ (runner.verdict = "ALL TESTS PASSED!" /\ runner.exit = 0)
               <=> noneFailed
          /\ ~noneFailed => runner.exit = 1

====
